---- MODULE Spec2Model ----
(***************************************************************************)
(* RTSP_To_VirtualCam.py as a state machine of three threads:             *)
(*   - the VirtualCamSendThread run loop (the sink),                       *)
(*   - the VideoThread run loop (connect, read, reconnect),                *)
(*   - the Qt GUI thread (MainWindow slots and queued signal handlers).    *)
(* Every shared read or write that can interleave is its own step; a       *)
(* block executed under VideoThread.lock, and thread-local statements      *)
(* between two shared accesses, are one step.                              *)
(***************************************************************************)
EXTENDS Naturals, Sequences, FiniteSets

\* ---------------------------------------------------------------- bounds
\* live frames the source yields in a run
MaxFrames == 2
\* control notifications the GUI thread may leave unprocessed while running is
\* set (a stop() in progress can add two more)
MaxLag == 2
\* reconnection announcements counted in one reconnection sequence
MaxAttempts == 8
\* the same two for the runs checked for liveness
FewFrames == 2
SmallLag == 1
\* in those runs av.open can fail only while current_wait is at most this
ShortOutage == 1

\* ------------------------------------------------------- program constants
initial_wait == 1
max_wait == 32
queue_maxsize == 1
default_rate_n == 25
default_rate_d == 1

\* average_rate of the stream: None (no rate advertised) or a rational
NoRate == <<0, 0>>
\* an average_rate a stream may advertise (numerator, denominator)
AdvertisedRate == <<30, 1>>
\* frame 0 is the generated test pattern; live frames are numbered from 1
TestPattern == 0

VARIABLES
    \* VirtualCamSendThread
    vc_queue,            \* self.queue, a Queue(maxsize=1), as a sequence
    vc_running,          \* self.running
    frame_rate,          \* <<self.frame_rate_n, self.frame_rate_d>>, NoRate = None
    send_test_pattern,   \* self.send_test_pattern
    virtual_cam,         \* self.virtual_cam: "none", "open", "closed"
    cam_fps,             \* fps the pyvirtualcam.Camera was opened with
    vc_pc,               \* position of VirtualCamSendThread.run
    vc_frame,            \* local `frame` of run, once sent
    send_ok,             \* whether virtual_cam.send(frame) returned normally
    \* VideoThread (the instance MainWindow.video_thread last created)
    vt_pc,               \* position of VideoThread.run
    vt_running,          \* self.running
    connection_established,
    container,           \* self.container: "none", "open"
    lock,                \* self.lock: "free", "vt"
    should_reconnect,
    is_reconnecting,
    current_wait,
    vt_frame,            \* local `img` of run
    \* MainWindow (GUI thread)
    gui_pc,              \* position of the GUI thread
    gui_op,              \* the slot that called VideoThread.stop()
    is_streaming,
    video_thread,        \* self.video_thread is not None
    sigq,                \* queued connection_lost / connection_established calls
    \* history of the run (not program state)
    frames_made,         \* live frames decoded so far
    last_submitted,      \* last frame a completed Live-mode send_frame was given
    last_taken,          \* last live frame queue.get returned
    lost_since_est,      \* connection_lost emitted since the last established
    n_attempts,          \* announcements made in the current reconnection sequence
    seq_cause,           \* what started it: "connect" (failed) or "error" (read)
    vt_succeeded,        \* this instance has had a successful connect_stream
    stop_returned,       \* VideoThread.stop() of this instance has returned
    \* what an observer of the run has seen (not program state)
    advertised,          \* average_rate of the stream the last av.open returned
    reports,             \* rates given to set_frame_rate in this connect_stream
    connects,            \* connect_stream calls of this instance (up to 2)
    cam_opens,           \* pyvirtualcam.Camera(...) calls that returned (up to 2)
    cam_fails,           \* pyvirtualcam.Camera(...) calls that raised (up to 2)
    preview_ok,          \* every frame notified for the virtual camera preview
                         \* had been sent to the camera successfully
    fresh,               \* the connect_stream call ("top", "retry") whose stream
                         \* has not been read from yet, or "none"
    stale,               \* the queue holds a frame that was in it when the
                         \* latest successful connect_stream disabled the test
                         \* pattern
    \* the environment of the run, fixed by the initial state
    env_frames,          \* live frames the source yields at most
    env_lag,             \* notifications the GUI thread may fall behind
    env_outage,          \* av.open can fail only while current_wait <= env_outage
    env_rates,           \* the average_rate values the source may advertise
    env_cam_fails        \* whether pyvirtualcam.Camera(...) may raise

vcVars == <<vc_queue, vc_running, frame_rate, send_test_pattern, virtual_cam,
            cam_fps, vc_pc, vc_frame, send_ok>>
vtVars == <<vt_pc, vt_running, connection_established, container, lock,
            should_reconnect, is_reconnecting, current_wait, vt_frame>>
guiVars == <<gui_pc, gui_op, is_streaming, video_thread, sigq>>
histVars == <<frames_made, last_submitted, last_taken, lost_since_est,
              n_attempts, seq_cause, vt_succeeded, stop_returned>>
obsVars == <<advertised, reports, connects, cam_opens, cam_fails, preview_ok,
             fresh, stale>>
envVars == <<env_frames, env_lag, env_outage, env_rates, env_cam_fails>>
vars == <<vcVars, vtVars, guiVars, histVars, obsVars, envVars>>

Min(a, b) == IF a < b THEN a ELSE b

\* ------------------------------------------------------------------ Init
\* MainWindow.__init__: the VirtualCamSendThread is constructed and started,
\* no VideoThread exists.
Program_init ==
    /\ vc_queue = <<>>
    /\ vc_running = TRUE
    /\ frame_rate = NoRate
    /\ send_test_pattern = TRUE
    /\ virtual_cam = "none"
    /\ cam_fps = NoRate
    /\ vc_pc = "loop"
    /\ vc_frame = TestPattern
    /\ send_ok = FALSE
    /\ vt_pc = "none"
    /\ vt_running = FALSE
    /\ connection_established = FALSE
    /\ container = "none"
    /\ lock = "free"
    /\ should_reconnect = FALSE
    /\ is_reconnecting = FALSE
    /\ current_wait = initial_wait
    /\ vt_frame = 0
    /\ gui_pc = "idle"
    /\ gui_op = "none"
    /\ is_streaming = FALSE
    /\ video_thread = FALSE
    /\ sigq = <<>>
    /\ frames_made = 0
    /\ last_submitted = 0
    /\ last_taken = 0
    /\ lost_since_est = 0
    /\ n_attempts = 0
    /\ seq_cause = "none"
    /\ vt_succeeded = FALSE
    /\ stop_returned = FALSE
    /\ advertised = NoRate
    /\ reports = <<>>
    /\ connects = 0
    /\ cam_opens = 0
    /\ cam_fails = 0
    /\ preview_ok = TRUE
    /\ fresh = "none"
    /\ stale = FALSE

\* ============================================== VirtualCamSendThread.run
\* `while self.running:` with the two tests that follow it, and the clean-up
\* after the loop. `time.sleep(0.1); continue` changes nothing, so the loop
\* stays here while virtual_cam is None. In test pattern mode the pattern is
\* created and handed to send_frame_to_virtual_cam, whose virtual_cam.send
\* either returns or raises (logged and swallowed).
vc_run_loop ==
    /\ vc_pc = "loop"
    /\ IF ~vc_running
       THEN /\ virtual_cam' = IF virtual_cam = "none" THEN "none" ELSE "closed"
            /\ vc_pc' = "done"
            /\ UNCHANGED <<vc_frame, send_ok>>
       ELSE /\ virtual_cam # "none"
            /\ virtual_cam' = virtual_cam
            /\ IF send_test_pattern
               THEN /\ vc_pc' = "tp_emit"
                    /\ vc_frame' = TestPattern
                    /\ \E ok \in BOOLEAN : send_ok' = ok
               ELSE /\ vc_pc' = "get"
                    /\ UNCHANGED <<vc_frame, send_ok>>
    /\ UNCHANGED <<vc_queue, vc_running, frame_rate, send_test_pattern, cam_fps>>
    /\ UNCHANGED <<vtVars, guiVars, histVars, envVars, obsVars>>

\* frame = self.queue.get(timeout=1): queue.Empty after the timeout, or a
\* frame, which is handed to send_frame_to_virtual_cam
vc_queue_get ==
    /\ vc_pc = "get"
    /\ IF vc_queue # <<>>
       THEN /\ vc_frame' = Head(vc_queue)
            /\ vc_queue' = Tail(vc_queue)
            /\ last_taken' = Head(vc_queue)
            /\ \E ok \in BOOLEAN : send_ok' = ok
            /\ vc_pc' = "live_emit"
       ELSE /\ vc_pc' = "loop"
            /\ UNCHANGED <<vc_frame, vc_queue, last_taken, send_ok>>
    /\ stale' = FALSE
    /\ UNCHANGED <<vc_running, frame_rate, send_test_pattern, virtual_cam, cam_fps>>
    /\ UNCHANGED <<vtVars, guiVars, envVars>>
    /\ UNCHANGED <<advertised, reports, connects, cam_opens, cam_fails, preview_ok,
                   fresh>>
    /\ UNCHANGED <<frames_made, last_submitted, lost_since_est, n_attempts,
                   seq_cause, vt_succeeded, stop_returned>>

\* virtual_cam_frame_sent_signal.emit(frame), the pacing sleep of the test
\* pattern branch, and back to the head of the loop
vc_emit_frame_sent ==
    /\ vc_pc \in {"tp_emit", "live_emit"}
    /\ vc_pc' = "loop"
    /\ vc_frame' = TestPattern
    /\ send_ok' = FALSE
    /\ preview_ok' = (preview_ok /\ send_ok)
    /\ UNCHANGED <<vc_queue, vc_running, frame_rate, send_test_pattern,
                   virtual_cam, cam_fps>>
    /\ UNCHANGED <<vtVars, guiVars, histVars, envVars>>
    /\ UNCHANGED <<advertised, reports, connects, cam_opens, cam_fails, fresh, stale>>

VirtualCamSendThread_run ==
    \/ vc_run_loop
    \/ vc_queue_get
    \/ vc_emit_frame_sent
\* ====================================== VirtualCamSendThread, called methods
\* enable_test_pattern that leaves the flag alone
enable_test_pattern_noop == send_test_pattern' = send_test_pattern

\* enable_test_pattern(): `if not self.send_test_pattern: ... = True`
enable_test_pattern == send_test_pattern' = TRUE

\* disable_test_pattern(): `if self.send_test_pattern: ... = False`
disable_test_pattern == send_test_pattern' = FALSE

\* set_frame_rate(n, d); camOk is whether pyvirtualcam.Camera(...) returns
\* (TRUE) or raises (FALSE). A closed Camera object is still truthy.
set_frame_rate(n, d, camOk) ==
    /\ frame_rate' = <<n, d>>
    /\ reports' = Append(reports, <<n, d>>)
    /\ IF virtual_cam = "none"
       THEN IF camOk
            THEN /\ virtual_cam' = "open"
                 /\ cam_fps' = <<n, d>>
                 /\ vc_running' = vc_running
                 /\ cam_opens' = Min(cam_opens + 1, 2)
                 /\ cam_fails' = cam_fails
            ELSE /\ vc_running' = FALSE
                 /\ cam_fails' = Min(cam_fails + 1, 2)
                 /\ UNCHANGED <<virtual_cam, cam_fps, cam_opens>>
       ELSE UNCHANGED <<virtual_cam, cam_fps, vc_running, cam_opens, cam_fails>>

\* run, after send_frame has returned: virtual_cam_frame_ready_signal.emit(img)
\* puts the decoded frame on the virtual camera preview; the frame has at
\* most been queued, it has not been sent to the camera
virtual_cam_frame_ready == preview_ok' = FALSE

\* queue.Queue: put_nowait succeeds unless the queue is full
QueueFull == Len(vc_queue) >= queue_maxsize

\* send_frame without the test of send_test_pattern: every frame goes on to
\* the queue
send_frame_check_any_mode ==
    /\ vt_pc = "submit"
    /\ vt_pc' = "sf_put"
    /\ vt_frame' = vt_frame
    /\ UNCHANGED <<vt_running, connection_established, container, lock,
                   should_reconnect, is_reconnecting, current_wait>>
    /\ UNCHANGED <<vcVars, guiVars, histVars, envVars, obsVars>>

\* send_frame, first statement: in test pattern mode the frame is ignored and
\* the call returns; otherwise it goes on to put_nowait. (run then emits
\* virtual_cam_frame_ready_signal and takes the next frame.)
send_frame_check ==
    /\ vt_pc = "submit"
    /\ IF send_test_pattern
       THEN vt_pc' = "demux" /\ vt_frame' = 0 /\ virtual_cam_frame_ready
       ELSE vt_pc' = "sf_put" /\ vt_frame' = vt_frame /\ preview_ok' = preview_ok
    /\ UNCHANGED <<vt_running, connection_established, container, lock,
                   should_reconnect, is_reconnecting, current_wait>>
    /\ UNCHANGED <<vcVars, guiVars, histVars, envVars>>
    /\ UNCHANGED <<advertised, reports, connects, cam_opens, cam_fails, fresh, stale>>

\* send_frame: the first self.queue.put_nowait(frame)
send_frame_put ==
    /\ vt_pc = "sf_put"
    /\ IF ~QueueFull
       THEN /\ vc_queue' = Append(vc_queue, vt_frame)
            /\ last_submitted' = vt_frame
            /\ vt_pc' = "demux"
            /\ vt_frame' = 0
            /\ virtual_cam_frame_ready
       ELSE /\ vt_pc' = "sf_discard"
            /\ UNCHANGED <<vc_queue, last_submitted, vt_frame, preview_ok>>
    /\ UNCHANGED <<vt_running, connection_established, container, lock,
                   should_reconnect, is_reconnecting, current_wait>>
    /\ UNCHANGED <<vc_running, frame_rate, send_test_pattern, virtual_cam,
                   cam_fps, vc_pc, vc_frame, send_ok>>
    /\ UNCHANGED <<guiVars, envVars>>
    /\ UNCHANGED <<advertised, reports, connects, cam_opens, cam_fails, fresh, stale>>
    /\ UNCHANGED <<frames_made, last_taken, lost_since_est, n_attempts,
                   seq_cause, vt_succeeded, stop_returned>>

\* send_frame on queue.Full without the get_nowait(): the old frame stays
send_frame_keep_oldest ==
    /\ vt_pc = "sf_discard"
    /\ vt_pc' = "sf_put2"
    /\ UNCHANGED <<vt_running, connection_established, container, lock,
                   should_reconnect, is_reconnecting, current_wait, vt_frame>>
    /\ UNCHANGED <<vcVars, guiVars, histVars, envVars, obsVars>>

\* send_frame, on queue.Full: self.queue.get_nowait() discards the old frame
\* (queue.Empty is passed over)
send_frame_discard ==
    /\ vt_pc = "sf_discard"
    /\ vc_queue' = IF vc_queue # <<>> THEN Tail(vc_queue) ELSE vc_queue
    /\ stale' = FALSE
    /\ vt_pc' = "sf_put2"
    /\ UNCHANGED <<vt_running, connection_established, container, lock,
                   should_reconnect, is_reconnecting, current_wait, vt_frame>>
    /\ UNCHANGED <<vc_running, frame_rate, send_test_pattern, virtual_cam,
                   cam_fps, vc_pc, vc_frame, send_ok>>
    /\ UNCHANGED <<guiVars, histVars, envVars>>
    /\ UNCHANGED <<advertised, reports, connects, cam_opens, cam_fails, preview_ok,
                   fresh>>

\* send_frame, on queue.Full: the second put_nowait; a second queue.Full is
\* logged and the frame is not enqueued
send_frame_put_again ==
    /\ vt_pc = "sf_put2"
    /\ vc_queue' = IF ~QueueFull THEN Append(vc_queue, vt_frame) ELSE vc_queue
    /\ last_submitted' = vt_frame
    /\ vt_pc' = "demux"
    /\ vt_frame' = 0
    /\ virtual_cam_frame_ready
    /\ UNCHANGED <<vt_running, connection_established, container, lock,
                   should_reconnect, is_reconnecting, current_wait>>
    /\ UNCHANGED <<vc_running, frame_rate, send_test_pattern, virtual_cam,
                   cam_fps, vc_pc, vc_frame, send_ok>>
    /\ UNCHANGED <<guiVars, envVars>>
    /\ UNCHANGED <<advertised, reports, connects, cam_opens, cam_fails, fresh, stale>>
    /\ UNCHANGED <<frames_made, last_taken, lost_since_est, n_attempts,
                   seq_cause, vt_succeeded, stop_returned>>

send_frame ==
    \/ send_frame_check
    \/ send_frame_put
    \/ send_frame_discard
    \/ send_frame_put_again

\* ============================================================ VideoThread
\* A pyqtSignal emitted in the VideoThread is delivered to the MainWindow slot
\* through the GUI thread's event queue. Only connection_lost_signal and
\* connection_established_signal have slots that write program state, so only
\* they are kept in sigq.
emit(sig) == sigq' = Append(sigq, sig)

\* The GUI thread falls at most env_lag notifications behind while running is
\* set; after stop() has cleared running at most two more are emitted.
CanEmit == ~vt_running \/ Len(sigq) < env_lag
\* the backoff step without max_wait
next_wait_uncapped(w) == w * 2

\* exponential backoff: self.current_wait = min(self.current_wait * 2, self.max_wait)
next_wait(w) == Min(w * 2, max_wait)
\* run with a loop that does not test self.running
run_loop_forever ==
    /\ vt_pc = "loop"
    /\ vt_pc' = "connect"
    /\ UNCHANGED <<vt_running, connection_established, container, lock,
                   should_reconnect, is_reconnecting, current_wait, vt_frame>>
    /\ UNCHANGED <<vcVars, guiVars, histVars, envVars, obsVars>>

\* `while self.running:` of run; the thread finishes when it is false
run_loop ==
    /\ vt_pc = "loop"
    /\ vt_pc' = IF vt_running THEN "connect" ELSE "done"
    /\ UNCHANGED <<vt_running, connection_established, container, lock,
                   should_reconnect, is_reconnecting, current_wait, vt_frame>>
    /\ UNCHANGED <<vcVars, guiVars, histVars, envVars, obsVars>>

\* connect_stream, entry: `with self.lock:` is taken and a container left
\* open is closed. Called from run ("connect") and from attempt_reconnection
\* ("r_connect"); av.open then blocks with the lock held.
connect_stream_acquire ==
    /\ vt_pc \in {"connect", "r_connect"}
    /\ lock = "free"
    /\ CanEmit
    /\ lock' = "vt"
    /\ container' = "none"
    /\ vt_pc' = IF vt_pc = "connect" THEN "open" ELSE "r_open"
    /\ connects' = Min(connects + 1, 2)
    /\ advertised' = NoRate
    /\ reports' = <<>>
    /\ fresh' = "none"
    /\ UNCHANGED <<vt_running, connection_established, should_reconnect,
                   is_reconnecting, current_wait, vt_frame>>
    /\ UNCHANGED <<vcVars, guiVars, histVars, envVars>>
    /\ UNCHANGED <<cam_opens, cam_fails, preview_ok, stale>>

\* the frame rate connect_stream passes on: average_rate, or 25/1 without one
\* the advertised rate taken as it is, without the fallback
resolved_rate_raw(rate) == rate

resolved_rate(rate) ==
    IF rate # NoRate THEN rate ELSE <<default_rate_n, default_rate_d>>

\* outcomes of av.open and of pyvirtualcam.Camera the environment allows
OpenOutcomes == IF current_wait <= env_outage THEN BOOLEAN ELSE {TRUE}
CameraOutcomes == IF env_cam_fails THEN BOOLEAN ELSE {TRUE}

\* connect_stream, the try block up to set_frame_rate: av.open returns
\* (opened) or raises. On success the rate of the stream, or the default,
\* goes to set_frame_rate; on failure connection_established is cleared and
\* the lock released on the way out.
connect_stream_open ==
    /\ vt_pc \in {"open", "r_open"}
    /\ \E opened \in OpenOutcomes, rate \in env_rates, camOk \in CameraOutcomes :
         IF opened
         THEN /\ container' = "open"
              /\ advertised' = rate
              /\ set_frame_rate(resolved_rate(rate)[1], resolved_rate(rate)[2], camOk)
              /\ vt_pc' = IF vt_pc = "open" THEN "est" ELSE "r_est"
              /\ UNCHANGED <<connection_established, lock>>
         ELSE /\ connection_established' = FALSE
              /\ container' = "none"
              /\ lock' = "free"
              /\ vt_pc' = IF vt_pc = "open" THEN "chk" ELSE "r_chk"
              /\ UNCHANGED <<frame_rate, virtual_cam, cam_fps, vc_running,
                             advertised, reports, cam_opens, cam_fails>>
    /\ UNCHANGED <<vt_running, should_reconnect, is_reconnecting, current_wait,
                   vt_frame>>
    /\ UNCHANGED <<vc_queue, send_test_pattern, vc_pc, vc_frame, send_ok>>
    /\ UNCHANGED <<guiVars, histVars, envVars>>
    /\ UNCHANGED <<connects, preview_ok, fresh, stale>>

\* connect_stream whose lock ends with the connection_established signal
connect_stream_established_unlocks ==
    /\ vt_pc \in {"est", "r_est"}
    /\ connection_established' = TRUE
    /\ emit("established")
    /\ disable_test_pattern
    /\ lost_since_est' = 0
    /\ n_attempts' = 0
    /\ seq_cause' = "none"
    /\ vt_succeeded' = TRUE
    /\ fresh' = IF vt_pc = "est" THEN "top" ELSE "retry"
    /\ stale' = (send_test_pattern /\ vc_queue # <<>>)
    /\ lock' = "free"
    /\ vt_pc' = IF vt_pc = "est" THEN "rst" ELSE "r_rst"
    /\ UNCHANGED <<vt_running, container, should_reconnect, is_reconnecting,
                   current_wait, vt_frame>>
    /\ UNCHANGED <<vc_queue, vc_running, frame_rate, virtual_cam, cam_fps, vc_pc,
                   vc_frame, send_ok>>
    /\ UNCHANGED <<gui_pc, gui_op, is_streaming, video_thread>>
    /\ UNCHANGED <<frames_made, last_submitted, last_taken, stop_returned>>
    /\ UNCHANGED envVars
    /\ UNCHANGED <<advertised, reports, connects, cam_opens, cam_fails, preview_ok>>

\* connect_stream, the try block after set_frame_rate: connection_established
\* is set and signalled and the test pattern is disabled, still under the lock
connect_stream_established ==
    /\ vt_pc \in {"est", "r_est"}
    /\ connection_established' = TRUE
    /\ emit("established")
    /\ disable_test_pattern
    /\ lost_since_est' = 0
    /\ n_attempts' = 0
    /\ seq_cause' = "none"
    /\ vt_succeeded' = TRUE
    /\ fresh' = IF vt_pc = "est" THEN "top" ELSE "retry"
    /\ stale' = (send_test_pattern /\ vc_queue # <<>>)
    /\ lock' = lock
    /\ vt_pc' = IF vt_pc = "est" THEN "rst" ELSE "r_rst"
    /\ UNCHANGED <<vt_running, container, should_reconnect, is_reconnecting,
                   current_wait, vt_frame>>
    /\ UNCHANGED <<vc_queue, vc_running, frame_rate, virtual_cam, cam_fps, vc_pc,
                   vc_frame, send_ok>>
    /\ UNCHANGED <<gui_pc, gui_op, is_streaming, video_thread>>
    /\ UNCHANGED <<frames_made, last_submitted, last_taken, stop_returned>>
    /\ UNCHANGED envVars
    /\ UNCHANGED <<advertised, reports, connects, cam_opens, cam_fails, preview_ok>>

\* connect_stream that leaves is_reconnecting as it is on success
connect_stream_reset_keeps_flag ==
    /\ vt_pc \in {"rst", "r_rst"}
    /\ is_reconnecting' = is_reconnecting
    /\ lock' = "free"
    /\ vt_pc' = IF vt_pc = "rst" THEN "chk" ELSE "r_chk"
    /\ UNCHANGED <<vt_running, connection_established, container,
                   should_reconnect, current_wait, vt_frame>>
    /\ UNCHANGED <<vcVars, guiVars, histVars, envVars, obsVars>>

\* connect_stream, the end of the try block: is_reconnecting is cleared; the
\* lock is released on the way out
connect_stream_reset ==
    /\ vt_pc \in {"rst", "r_rst"}
    /\ is_reconnecting' = FALSE
    /\ lock' = "free"
    /\ vt_pc' = IF vt_pc = "rst" THEN "chk" ELSE "r_chk"
    /\ UNCHANGED <<vt_running, connection_established, container,
                   should_reconnect, current_wait, vt_frame>>
    /\ UNCHANGED <<vcVars, guiVars, histVars, envVars, obsVars>>

\* run, after connect_stream returned: a failed connect signals the loss,
\* enables the test pattern and enters attempt_reconnection (unless already
\* reconnecting, then `continue`); a successful one resets current_wait and
\* starts reading.
run_after_connect ==
    /\ vt_pc = "chk"
    /\ IF ~connection_established
       THEN IF ~is_reconnecting
            THEN /\ CanEmit
                 /\ emit("lost")
                 /\ enable_test_pattern
                 /\ is_reconnecting' = TRUE
                 /\ lost_since_est' = Min(lost_since_est + 1, 2)
                 /\ n_attempts' = 0
                 /\ seq_cause' = "connect"
                 /\ vt_pc' = "reconn"
                 /\ UNCHANGED current_wait
            ELSE /\ vt_pc' = "finally"
                 /\ UNCHANGED <<sigq, send_test_pattern, is_reconnecting,
                                lost_since_est, n_attempts, seq_cause, current_wait>>
       ELSE /\ current_wait' = initial_wait
            /\ vt_pc' = "demux"
            /\ UNCHANGED <<sigq, send_test_pattern, is_reconnecting, lost_since_est,
                           n_attempts, seq_cause>>
    /\ UNCHANGED <<vt_running, connection_established, container, lock,
                   should_reconnect, vt_frame>>
    /\ UNCHANGED <<vc_queue, vc_running, frame_rate, virtual_cam, cam_fps, vc_pc,
                   vc_frame, send_ok>>
    /\ UNCHANGED <<gui_pc, gui_op, is_streaming, video_thread>>
    /\ UNCHANGED <<frames_made, last_submitted, last_taken, vt_succeeded,
                   stop_returned>>
    /\ UNCHANGED <<envVars, obsVars>>

\* run, `for packet in self.container.demux():` the next packet is an error
\* (AVError from demux or decode), the end of the stream, or a packet, after
\* which running is tested under the lock. A packet without dts changes
\* nothing and is not a step.
run_demux ==
    /\ vt_pc = "demux"
    /\ \/ vt_pc' = "hd"
       \/ vt_pc' = "finally"
       \/ /\ lock = "free"
          /\ vt_pc' = IF vt_running THEN "frm_check" ELSE "finally"
    /\ fresh' = "none"
    /\ UNCHANGED <<vt_running, connection_established, container, lock,
                   should_reconnect, is_reconnecting, current_wait, vt_frame>>
    /\ UNCHANGED <<vcVars, guiVars, histVars, envVars>>
    /\ UNCHANGED <<advertised, reports, connects, cam_opens, cam_fails, preview_ok,
                   stale>>

\* run, `for frame in packet.decode():` running is tested under the lock (the
\* break leaves the inner loop only), a None frame is skipped, a frame is
\* converted and frame_ready_signal is emitted.
run_frame ==
    /\ vt_pc = "frm_check"
    /\ lock = "free"
    /\ IF ~vt_running
       THEN /\ vt_pc' = "demux"
            /\ UNCHANGED <<vt_frame, frames_made>>
       ELSE \/ /\ vt_pc' = "demux"
               /\ UNCHANGED <<vt_frame, frames_made>>
            \/ /\ frames_made < env_frames
               /\ frames_made' = frames_made + 1
               /\ vt_frame' = frames_made + 1
               /\ vt_pc' = "submit"
    /\ UNCHANGED <<vt_running, connection_established, container, lock,
                   should_reconnect, is_reconnecting, current_wait>>
    /\ UNCHANGED <<vcVars, guiVars, envVars, obsVars>>
    /\ UNCHANGED <<last_submitted, last_taken, lost_since_est, n_attempts,
                   seq_cause, vt_succeeded, stop_returned>>

\* handle_disconnection: under the lock a loss of an established connection
\* is signalled and the test pattern enabled; unless already reconnecting,
\* is_reconnecting is set and, outside the lock, attempt_reconnection entered.
handle_disconnection ==
    /\ vt_pc = "hd"
    /\ lock = "free"
    /\ IF connection_established
       THEN /\ CanEmit
            /\ emit("lost")
            /\ enable_test_pattern
            /\ connection_established' = FALSE
            /\ lost_since_est' = Min(lost_since_est + 1, 2)
       ELSE UNCHANGED <<sigq, send_test_pattern, connection_established,
                        lost_since_est>>
    /\ IF is_reconnecting
       THEN /\ vt_pc' = "finally"
            /\ UNCHANGED <<is_reconnecting, n_attempts, seq_cause>>
       ELSE /\ is_reconnecting' = TRUE
            /\ n_attempts' = 0
            /\ seq_cause' = "error"
            /\ vt_pc' = IF should_reconnect THEN "reconn" ELSE "finally"
    /\ UNCHANGED <<vt_running, container, lock, should_reconnect, current_wait,
                   vt_frame>>
    /\ UNCHANGED <<vc_queue, vc_running, frame_rate, virtual_cam, cam_fps, vc_pc,
                   vc_frame, send_ok>>
    /\ UNCHANGED <<gui_pc, gui_op, is_streaming, video_thread>>
    /\ UNCHANGED <<frames_made, last_submitted, last_taken, vt_succeeded,
                   stop_returned>>
    /\ UNCHANGED <<envVars, obsVars>>

\* attempt_reconnection, `while self.running and self.should_reconnect and
\* self.is_reconnecting:` and reconnection_attempt_signal.emit(current_wait);
\* the thread then sleeps current_wait seconds
attempt_reconnection_loop ==
    /\ vt_pc = "reconn"
    /\ IF vt_running /\ should_reconnect /\ is_reconnecting
       THEN /\ n_attempts' = Min(n_attempts + 1, MaxAttempts)
            /\ vt_pc' = "sleep"
       ELSE /\ vt_pc' = "finally"
            /\ UNCHANGED n_attempts
    /\ UNCHANGED <<vt_running, connection_established, container, lock,
                   should_reconnect, is_reconnecting, current_wait, vt_frame>>
    /\ UNCHANGED <<vcVars, guiVars, envVars, obsVars>>
    /\ UNCHANGED <<frames_made, last_submitted, last_taken, lost_since_est,
                   seq_cause, vt_succeeded, stop_returned>>

\* attempt_reconnection, time.sleep(self.current_wait) returns and running is
\* tested: break, or go on to connect_stream
attempt_reconnection_sleep ==
    /\ vt_pc = "sleep"
    /\ vt_pc' = IF vt_running THEN "r_connect" ELSE "finally"
    /\ UNCHANGED <<vt_running, connection_established, container, lock,
                   should_reconnect, is_reconnecting, current_wait, vt_frame>>
    /\ UNCHANGED <<vcVars, guiVars, histVars, envVars, obsVars>>

\* attempt_reconnection, after connect_stream returned: break when connected,
\* else double the wait up to max_wait and loop
attempt_reconnection_after_connect ==
    /\ vt_pc = "r_chk"
    /\ IF connection_established
       THEN /\ vt_pc' = "finally"
            /\ UNCHANGED current_wait
       ELSE /\ current_wait' = next_wait(current_wait)
            /\ vt_pc' = "reconn"
    /\ UNCHANGED <<vt_running, connection_established, container, lock,
                   should_reconnect, is_reconnecting, vt_frame>>
    /\ UNCHANGED <<vcVars, guiVars, histVars, envVars, obsVars>>
\* run with the try statement around the loop: the finally block ends run
run_finally_returns ==
    /\ vt_pc = "finally"
    /\ container' = "none"
    /\ vt_pc' = "done"
    /\ UNCHANGED <<vt_running, connection_established, lock, should_reconnect,
                   is_reconnecting, current_wait, vt_frame>>
    /\ UNCHANGED <<vcVars, guiVars, histVars, envVars, obsVars>>

\* run, the finally clause of the loop body: an open container is closed
run_finally ==
    /\ vt_pc = "finally"
    /\ container' = "none"
    /\ vt_pc' = "loop"
    /\ UNCHANGED <<vt_running, connection_established, lock, should_reconnect,
                   is_reconnecting, current_wait, vt_frame>>
    /\ UNCHANGED <<vcVars, guiVars, histVars, envVars, obsVars>>

VideoThread_run ==
    \/ run_loop
    \/ connect_stream_acquire
    \/ connect_stream_open
    \/ connect_stream_established
    \/ connect_stream_reset
    \/ run_after_connect
    \/ run_demux
    \/ run_frame
    \/ send_frame
    \/ handle_disconnection
    \/ attempt_reconnection_loop
    \/ attempt_reconnection_sleep
    \/ attempt_reconnection_after_connect
    \/ run_finally

\* ============================================================= MainWindow
\* what the user may have typed into rtsp_input: nothing, or an address
Urls == {"", "rtsp://a"}

\* A click or close request reaches its slot through the event loop that also
\* runs the queued signal handlers: it finds at most env_lag of them pending.
UserEvent == gui_pc = "idle" /\ Len(sigq) <= env_lag

\* VideoThread.__init__ and start(): a fresh instance, its thread at the head
\* of run; the history of the instance starts over
NewVideoThread ==
    /\ vt_pc' = "loop"
    /\ vt_running' = TRUE
    /\ connection_established' = FALSE
    /\ container' = "none"
    /\ lock' = "free"
    /\ should_reconnect' = TRUE
    /\ is_reconnecting' = FALSE
    /\ current_wait' = initial_wait
    /\ vt_frame' = 0
    /\ lost_since_est' = 0
    /\ n_attempts' = 0
    /\ seq_cause' = "none"
    /\ vt_succeeded' = FALSE
    /\ stop_returned' = FALSE
    /\ advertised' = NoRate
    /\ reports' = <<>>
    /\ connects' = 0
    /\ fresh' = "none"

\* connect_to_stream: an empty URL is refused; an existing VideoThread is
\* stopped first; then a VideoThread is created and started
connect_to_stream ==
    /\ UserEvent
    /\ ~is_streaming
    /\ \E url \in Urls :
         IF url = ""
         THEN UNCHANGED vars
         ELSE IF video_thread
              THEN /\ gui_pc' = "stop_acq"
                   /\ gui_op' = "connect"
                   /\ UNCHANGED <<is_streaming, video_thread, sigq>>
                   /\ UNCHANGED <<vcVars, vtVars, histVars, envVars, obsVars>>
              ELSE /\ NewVideoThread
                   /\ video_thread' = TRUE
                   /\ is_streaming' = TRUE
                   /\ UNCHANGED <<gui_pc, gui_op, sigq>>
                   /\ UNCHANGED <<frames_made, last_submitted, last_taken>>
                   /\ UNCHANGED <<cam_opens, cam_fails, preview_ok, stale>>
                   /\ UNCHANGED <<vcVars, envVars>>

\* disconnect_stream that drops the VideoThread without stopping it
disconnect_stream_no_stop ==
    /\ UserEvent
    /\ is_streaming
    /\ is_streaming' = FALSE
    /\ video_thread' = FALSE
    /\ enable_test_pattern
    /\ UNCHANGED <<gui_pc, gui_op, sigq>>
    /\ UNCHANGED <<vc_queue, vc_running, frame_rate, virtual_cam, cam_fps, vc_pc,
                   vc_frame, send_ok>>
    /\ UNCHANGED <<vtVars, histVars, envVars, obsVars>>

\* disconnect_stream, up to the call of video_thread.stop()
disconnect_stream ==
    /\ UserEvent
    /\ is_streaming
    /\ is_streaming' = FALSE
    /\ IF video_thread
       THEN /\ gui_pc' = "stop_acq"
            /\ gui_op' = "disconnect"
            /\ UNCHANGED send_test_pattern
       ELSE /\ enable_test_pattern
            /\ UNCHANGED <<gui_pc, gui_op>>
    /\ UNCHANGED <<video_thread, sigq>>
    /\ UNCHANGED <<vc_queue, vc_running, frame_rate, virtual_cam, cam_fps, vc_pc,
                   vc_frame, send_ok>>
    /\ UNCHANGED <<vtVars, histVars, envVars, obsVars>>

\* toggle_stream: the Connect/Disconnect button
toggle_stream ==
    \/ disconnect_stream
    \/ connect_to_stream

\* VideoThread.stop, `with self.lock: self.running = False`
stop_acquire ==
    /\ gui_pc = "stop_acq"
    /\ lock = "free"
    /\ vt_running' = FALSE
    /\ gui_pc' = "stop_wait"
    /\ UNCHANGED <<vt_pc, connection_established, container, lock,
                   should_reconnect, is_reconnecting, current_wait, vt_frame>>
    /\ UNCHANGED <<gui_op, is_streaming, video_thread, sigq>>
    /\ UNCHANGED <<vcVars, histVars, envVars, obsVars>>
\* stop without self.wait()
run_finished_nowait == TRUE

\* VideoThread.stop, self.wait(): returns once run has finished
run_finished == vt_pc = "done"

\* VideoThread.stop, after self.wait(): under the lock the container is
\* closed and the reconnection flags are cleared; stop returns
stop_wait ==
    /\ gui_pc = "stop_wait"
    /\ run_finished
    /\ lock = "free"
    /\ container' = "none"
    /\ should_reconnect' = FALSE
    /\ is_reconnecting' = FALSE
    /\ stop_returned' = TRUE
    /\ gui_pc' = "stopped"
    /\ UNCHANGED <<vt_pc, vt_running, connection_established, lock, current_wait,
                   vt_frame>>
    /\ UNCHANGED <<gui_op, is_streaming, video_thread, sigq>>
    /\ UNCHANGED <<vcVars, envVars, obsVars>>
    /\ UNCHANGED <<frames_made, last_submitted, last_taken, lost_since_est,
                   n_attempts, seq_cause, vt_succeeded>>

\* what the caller of VideoThread.stop() does next: disconnect_stream drops
\* the thread and enables the test pattern; connect_to_stream creates the new
\* thread; closeEvent goes on to VirtualCamSendThread.stop(), which clears
\* running and waits
after_stop ==
    /\ gui_pc = "stopped"
    /\ IF gui_op = "disconnect"
       THEN /\ video_thread' = FALSE
            /\ enable_test_pattern
            /\ gui_pc' = "idle"
            /\ UNCHANGED <<vc_running, is_streaming>>
            /\ UNCHANGED <<vtVars, histVars>>
            /\ UNCHANGED <<advertised, reports, connects, fresh>>
       ELSE IF gui_op = "connect"
            THEN /\ NewVideoThread
                 /\ video_thread' = TRUE
                 /\ is_streaming' = TRUE
                 /\ gui_pc' = "idle"
                 /\ UNCHANGED <<vc_running, send_test_pattern>>
                 /\ UNCHANGED <<frames_made, last_submitted, last_taken>>
            ELSE /\ vc_running' = FALSE
                 /\ gui_pc' = "vc_wait"
                 /\ UNCHANGED <<video_thread, is_streaming, send_test_pattern>>
                 /\ UNCHANGED <<vtVars, histVars>>
                 /\ UNCHANGED <<advertised, reports, connects, fresh>>
    /\ gui_op' = "none"
    /\ UNCHANGED sigq
    /\ UNCHANGED <<vc_queue, frame_rate, virtual_cam, cam_fps, vc_pc, vc_frame,
                   send_ok>>
    /\ UNCHANGED <<cam_opens, cam_fails, preview_ok, stale>>
    /\ UNCHANGED envVars

\* closeEvent: stop the VideoThread if there is one, then the
\* VirtualCamSendThread
closeEvent ==
    /\ UserEvent
    /\ IF video_thread
       THEN /\ gui_pc' = "stop_acq"
            /\ gui_op' = "close"
            /\ UNCHANGED vc_running
       ELSE /\ vc_running' = FALSE
            /\ gui_pc' = "vc_wait"
            /\ UNCHANGED gui_op
    /\ UNCHANGED <<is_streaming, video_thread, sigq>>
    /\ UNCHANGED <<vc_queue, frame_rate, send_test_pattern, virtual_cam, cam_fps,
                   vc_pc, vc_frame, send_ok>>
    /\ UNCHANGED <<vtVars, histVars, envVars, obsVars>>

\* VirtualCamSendThread.stop, self.wait() returns once run has finished; the
\* window closes and the event loop ends
vc_stop_wait ==
    /\ gui_pc = "vc_wait"
    /\ vc_pc = "done"
    /\ gui_pc' = "closed"
    /\ UNCHANGED <<gui_op, is_streaming, video_thread, sigq>>
    /\ UNCHANGED <<vcVars, vtVars, histVars, envVars, obsVars>>

\* on_connection_lost, run by the event loop for a queued connection_lost
on_connection_lost ==
    /\ gui_pc = "idle"
    /\ sigq # <<>>
    /\ Head(sigq) = "lost"
    /\ sigq' = Tail(sigq)
    /\ enable_test_pattern
    /\ UNCHANGED <<gui_pc, gui_op, is_streaming, video_thread>>
    /\ UNCHANGED <<vc_queue, vc_running, frame_rate, virtual_cam, cam_fps, vc_pc,
                   vc_frame, send_ok>>
    /\ UNCHANGED <<vtVars, histVars, envVars, obsVars>>

\* on_connection_established, run by the event loop for a queued
\* connection_established
on_connection_established ==
    /\ gui_pc = "idle"
    /\ sigq # <<>>
    /\ Head(sigq) = "established"
    /\ sigq' = Tail(sigq)
    /\ disable_test_pattern
    /\ UNCHANGED <<gui_pc, gui_op, is_streaming, video_thread>>
    /\ UNCHANGED <<vc_queue, vc_running, frame_rate, virtual_cam, cam_fps, vc_pc,
                   vc_frame, send_ok>>
    /\ UNCHANGED <<vtVars, histVars, envVars, obsVars>>

MainWindow ==
    \/ toggle_stream
    \/ stop_acquire
    \/ stop_wait
    \/ after_stop
    \/ closeEvent
    \/ vc_stop_wait
    \/ on_connection_lost
    \/ on_connection_established

\* ================================================================== system
Next ==
    \/ VirtualCamSendThread_run
    \/ VideoThread_run
    \/ MainWindow

\* The source can fail at any time and advertises no rate, the camera may
\* fail to open.
Init ==
    /\ Program_init
    /\ env_frames = MaxFrames
    /\ env_lag = MaxLag
    /\ env_outage = max_wait
    /\ env_rates = {NoRate}
    /\ env_cam_fails = TRUE

Spec == Init /\ [][Next]_vars

\* Both threads keep running (every blocking call returns), the event loop
\* keeps dispatching, and a thread waiting for the lock gets it when it is
\* released again and again.
Fairness ==
    /\ WF_vars(VideoThread_run)
    /\ WF_vars(VirtualCamSendThread_run)
    /\ SF_vars(stop_acquire)
    /\ WF_vars(stop_wait \/ after_stop \/ vc_stop_wait
                  \/ on_connection_lost \/ on_connection_established)

LiveSpec == Init /\ [][Next]_vars /\ Fairness

\* The runs in which termination and recovery are checked: a GUI thread that
\* keeps up, a source that recovers after a short outage, a camera that opens.
InitSmall ==
    /\ Program_init
    /\ env_frames = FewFrames
    /\ env_lag = SmallLag
    /\ env_outage = ShortOutage
    /\ env_rates = {NoRate}
    /\ env_cam_fails = FALSE

FairSpec == InitSmall /\ [][Next]_vars /\ Fairness

\* The runs in which frame rates are checked: a source whose connections
\* advertise no rate or AdvertisedRate, a camera that may fail to open.
InitRates ==
    /\ Program_init
    /\ env_frames = FewFrames
    /\ env_lag = SmallLag
    /\ env_outage = ShortOutage
    /\ env_rates = {NoRate, AdvertisedRate}
    /\ env_cam_fails = TRUE

RateSpec == InitRates /\ [][Next]_vars

\* ================================================================ properties
\* The frames are numbered 1, 2, ... in the order the source yields them;
\* last_submitted is the last one send_frame took in, last_taken the last one
\* the sink thread took out of the queue.

\* C1: the frame slot holds at most one frame; a frame in it is the most
\* recently submitted one and newer than every frame taken so far, so that a
\* take returns the most recent submitted frame and an older, unread frame is
\* the one that was dropped.
C1_DropOldest ==
    /\ Len(vc_queue) <= queue_maxsize
    /\ last_taken <= last_submitted
    /\ vc_queue # <<>> =>
         /\ vc_queue[1] = last_submitted
         /\ last_taken < vc_queue[1]

\* frame 1 was queued and never taken, and the submit of frame 2 has just
\* removed it
C1_Witness ==
    /\ vt_pc = "sf_put2"
    /\ vt_frame = 2
    /\ vc_queue = <<>>
    /\ last_submitted = 1
    /\ last_taken = 0

\* C2: a submit made while the test pattern is on changes nothing in the
\* frame slot: the frame is not queued and no held frame is replaced.
C2_PlaceholderSubmitIsNoOp ==
    [][(vt_pc = "submit" /\ send_test_pattern /\ vt_pc' # vt_pc)
         => /\ vc_queue' = vc_queue
            /\ last_submitted' = last_submitted
            /\ vt_pc' = "demux"]_vars

\* frame 1 went through send_frame with the test pattern on and was dropped
C2_Witness ==
    /\ vt_pc = "demux"
    /\ send_test_pattern
    /\ frames_made = 1
    /\ last_submitted = 0
    /\ vc_queue = <<>>

\* the waits of the claim, in seconds
ClaimedWaits == <<1, 2, 4, 8, 16, 32, 32>>

\* C3: while no connect attempt of the instance has succeeded, one
\* connection-lost notification has been emitted when a wait is announced,
\* the n-th announced wait is 1, 2, 4, 8, 16, 32, 32, ... and no wait is
\* longer than 32.
C3_BackoffWhenAllFail ==
    /\ vt_pc = "sleep" => current_wait <= 32
    /\ ~vt_succeeded => lost_since_est <= 1
    /\ (vt_pc = "sleep" /\ ~vt_succeeded) =>
         /\ lost_since_est = 1
         /\ current_wait = IF n_attempts <= Len(ClaimedWaits)
                           THEN ClaimedWaits[n_attempts] ELSE 32

\* the seventh wait is announced and no connect has succeeded
C3_Witness ==
    /\ vt_pc = "sleep"
    /\ ~vt_succeeded
    /\ n_attempts = 7
    /\ current_wait = 32

\* C4: every successful connect resets the backoff: the first wait announced
\* after a connect of the instance has succeeded is 1 second.
C4_SuccessResetsBackoff ==
    (vt_pc = "sleep" /\ vt_succeeded /\ n_attempts = 1)
        => current_wait = initial_wait

\* C5: while the sink loop runs, the engine keeps retrying and no connect
\* attempt has ever succeeded, the sink delivers a test pattern again and
\* again.
C5_SinkNeverSilent ==
    ([]<>(vt_pc = "r_open") /\ [](vc_running /\ frame_rate = NoRate))
        => []<>(vc_pc = "tp_emit" /\ send_ok)

\* C6: a read error sets the test pattern on and emits the one
\* connection-lost notification of this loss (there are never two without an
\* establishment in between) before attempt_reconnection is entered, and the
\* first wait announced in the sequence it starts is 1 second.
C6_ReadErrorThenPlaceholder ==
    /\ [](lost_since_est <= 1)
    /\ []((vt_pc = "sleep" /\ seq_cause = "error" /\ n_attempts = 1)
            => current_wait = 1)
    /\ [][(vt_pc = "hd" /\ vt_pc' # vt_pc)
            => /\ send_test_pattern'
               /\ lost_since_est' = 1
               /\ sigq' = Append(sigq, "lost")
               /\ vt_pc' = "reconn"
               /\ current_wait' = 1]_vars

\* the first wait after a read error is being slept, the test pattern is on
C6_Witness ==
    /\ vt_pc = "sleep"
    /\ seq_cause = "error"
    /\ n_attempts = 1
    /\ lost_since_est = 1
    /\ send_test_pattern

\* C7: once the instance has been connected, it starts a connect attempt
\* only with the test pattern on and in the reconnecting state, however the
\* stream was lost.
C7_PlaceholderBeforeReconnect ==
    (vt_pc \in {"open", "r_open"} /\ vt_succeeded)
        => (send_test_pattern /\ is_reconnecting)

\* C8: after stop() has returned the thread of the instance has terminated
\* (it starts no connect attempt, submit or wait), the instance holds no
\* stream and is neither reconnecting nor willing to.
C8_StoppedIsDisconnected ==
    stop_returned =>
        /\ vt_pc = "done"
        /\ container = "none"
        /\ lock = "free"
        /\ ~vt_running
        /\ ~is_reconnecting
        /\ ~should_reconnect

\* stop() was called during the backoff and has returned
C8_Witness ==
    /\ stop_returned
    /\ gui_pc = "stopped"
    /\ current_wait > initial_wait
    /\ ~vt_succeeded

\* C9: a call of stop() returns.
C9_StopReturns == (gui_pc = "stop_acq") ~> stop_returned

\* stop() waits for the lock that a connect attempt holds
C9_Witness ==
    /\ gui_pc = "stop_acq"
    /\ lock = "vt"
    /\ vt_pc = "r_open"

\* the engine has met a failed connect, a read error or the end of the stream
\* and has not started the next connect attempt
Recovering ==
    \/ vt_pc \in {"chk", "r_chk"} /\ ~connection_established
    \/ vt_pc \in {"hd", "reconn", "sleep", "r_connect", "finally"}

\* C10: the thread ends only after stop() has cleared running, and after a
\* failure, a loss or the end of the stream another connect attempt follows
\* unless stop() is called.
C10_NeverGivesUp ==
    /\ [](vt_pc = "done" => ~vt_running)
    /\ (Recovering /\ vt_running) ~> (vt_pc \in {"open", "r_open"} \/ ~vt_running)

\* a connect attempt made after the stream has ended
C10_Witness ==
    /\ vt_pc = "open"
    /\ vt_succeeded
    /\ ~is_reconnecting
    /\ vt_running

\* C11: a VideoThread is created and started only when there is none or the
\* previous one has run to its end and its stop() has returned, so at most
\* one is running at any time.
C11_OneVideoThread ==
    [][(~is_streaming /\ is_streaming')
         => /\ vt_pc \in {"none", "done"}
            /\ ~vt_running
            /\ vt_pc = "done" => stop_returned]_vars

\* a second VideoThread has been started after frames of an earlier one
C11_Witness ==
    /\ vt_pc = "loop"
    /\ vt_running
    /\ connects = 0
    /\ frames_made > 0

\* C12: on every successful connection the resolved frame rate (the
\* advertised one, or 25/1 when none is advertised) has been passed to
\* set_frame_rate exactly once when the connection is established, and no step
\* of the VideoThread that switches the relay to live frames, decodes a frame
\* or submits one happens before that report or makes another one.
C12_ExpectedReports ==
    <<IF advertised = NoRate THEN <<default_rate_n, default_rate_d>> ELSE advertised>>

C12_RateReportedOnce ==
    /\ [](vt_pc \in {"est", "r_est"} \/ fresh # "none" => reports = C12_ExpectedReports)
    /\ [][(\/ send_test_pattern /\ ~send_test_pattern' /\ vt_pc' # vt_pc
           \/ frames_made' # frames_made
           \/ last_submitted' # last_submitted)
            => reports = C12_ExpectedReports /\ reports' = reports]_vars

\* a frame of a connection without an advertised rate is being submitted
\* after an earlier connection that advertised one
C12_Witness ==
    /\ cam_fps = AdvertisedRate
    /\ advertised = NoRate
    /\ reports = <<(<<default_rate_n, default_rate_d>>)>>
    /\ connects = 2
    /\ vt_pc = "sf_put"
    /\ vt_frame > 0

\* C13: the rate the open output device is paced at is the rate most
\* recently passed to set_frame_rate, also after a later connection with a
\* different rate.
C13_PacingFollowsLatestRate ==
    virtual_cam = "open" => cam_fps = frame_rate

\* C14: the output device is opened at most once, and a set_frame_rate call
\* of connect_stream made while the device is open changes no field of the
\* VirtualCamSendThread, the recorded frame rate included.
C14_SetFrameRateWhileOpenIsNoOp ==
    /\ [](cam_opens <= 1)
    /\ [][(vt_pc \in {"open", "r_open"} /\ vt_pc' \in {"est", "r_est"}
             /\ virtual_cam = "open")
            => /\ frame_rate' = frame_rate
               /\ virtual_cam' = virtual_cam
               /\ cam_fps' = cam_fps
               /\ vc_running' = vc_running
               /\ send_test_pattern' = send_test_pattern
               /\ vc_queue' = vc_queue]_vars

\* C15: once pyvirtualcam.Camera has failed in set_frame_rate no later
\* set_frame_rate call tries to open the device again, the device stays
\* absent and the sink delivers nothing.
C15_OpenFailureIsFinal ==
    cam_fails >= 1 => /\ cam_fails = 1
                      /\ cam_opens = 0
                      /\ virtual_cam = "none"
                      /\ vc_pc \notin {"tp_emit", "live_emit"}

\* C16: every connect_stream call of a VideoThread after its first one is made
\* by attempt_reconnection, after the reconnection-attempt notification and
\* the wait; run itself calls connect_stream only once.
C16_EveryReconnectSignalled ==
    vt_pc = "open" => connects <= 1

\* C17: every frame notified for the virtual camera preview
\* (virtual_cam_frame_sent_signal, virtual_cam_frame_ready_signal) was handed
\* to the output device successfully.
C17_PreviewOnlyDelivered ==
    preview_ok

\* C18: at most one reconnection sequence per VideoThread. attempt_reconnection
\* is entered only by the step that sets is_reconnecting, a failure seen while
\* is_reconnecting is set enters it no second time, the sequence runs with
\* is_reconnecting set, and run calls connect_stream only with it cleared.
SequencePcs == {"reconn", "sleep", "r_connect", "r_open", "r_est", "r_rst"}

C18_OneReconnectionSequence ==
    /\ [](vt_pc \in {"connect", "open", "est", "rst"} => ~is_reconnecting)
    /\ [](vt_pc \in SequencePcs /\ vt_running => is_reconnecting)
    /\ [][(vt_pc \notin SequencePcs \cup {"r_chk"} /\ vt_pc' \in SequencePcs)
            => /\ vt_pc \in {"chk", "hd"}
               /\ ~is_reconnecting
               /\ is_reconnecting'
               /\ vt_pc' = "reconn"]_vars

\* the second attempt of a reconnection sequence is connecting
C18_Witness ==
    /\ vt_pc = "r_open"
    /\ is_reconnecting
    /\ n_attempts = 2
    /\ current_wait = 2 * initial_wait

\* C19: when VirtualCamSendThread.stop() has returned the delivery loop has
\* ended, a device that was opened has been closed, and nothing is being
\* delivered.
C19_SinkStopClosesDevice ==
    gui_pc = "closed" => /\ vc_pc = "done"
                         /\ ~vc_running
                         /\ virtual_cam # "open"

\* C20: after a retry of attempt_reconnection has connected, and until the
\* first packet is read, the container opened by that retry stays open and
\* run makes no other connect_stream call.
C20_RetryStreamIsConsumed ==
    fresh = "retry" /\ vt_running
        => /\ container = "open"
           /\ vt_pc \notin {"loop", "connect", "open", "est", "rst"}

\* C21: once disconnect_stream has returned, and until the next
\* connect_to_stream, the sink sends the test pattern, whatever queued
\* notifications of the stopped VideoThread the GUI thread still handles.
C21_PlaceholderAfterDisconnect ==
    ~is_streaming /\ gui_pc = "idle" => send_test_pattern

\* C22: the sink never takes from its queue a frame that was already in it
\* when the latest successful connect_stream switched the test pattern off: a
\* frame left in the queue during test pattern mode is not delivered after the
\* reconnection.
C22_NoStaleFrameDelivered ==
    [][(vc_pc = "get" /\ vc_pc' = "live_emit") => ~stale]_vars

\* C23: whenever no thread holds the lock of the VideoThread,
\* connection_established and is_reconnecting are not both set; and once
\* stop() has returned is_reconnecting is clear.
C23_FlagsExclusive ==
    /\ lock = "free" => ~(connection_established /\ is_reconnecting)
    /\ stop_returned => ~is_reconnecting

\* a retry has set connection_established under the lock and has not cleared
\* is_reconnecting yet
C23_Witness ==
    /\ vt_pc = "r_rst"
    /\ lock = "vt"
    /\ connection_established
    /\ is_reconnecting
====
